---- MODULE Spec2Model ----
(***************************************************************************)
(* State-machine model of RudderStackTracker (src/unnamed/part_000): the   *)
(* singleton lifecycle, the history interception with its debounce gate,   *)
(* the MutationObserver that attaches click listeners, and destroy().      *)
(* The browser objects the class mutates (history.pushState/replaceState,  *)
(* window popstate listeners, element click listeners, timers, mutation    *)
(* record queues) are part of the state.                                   *)
(***************************************************************************)
EXTENDS Integers, Sequences, FiniteSets, TLC

\* ------------------------------------------------------------------ bounds
MaxInst == 2        \* instances the constructor may create
MaxPending == 2     \* ready() callbacks registered and not yet run, per instance
MaxQueue == 1       \* mutation records queued for one observer
MaxInstalls == 2    \* runs of setupPageTracking that install the interception
MaxUrlLen == 4      \* characters of a URL given to trackPageView directly
MaxPages == 2       \* entries of an allowlist given to trackPageView directly
MaxProv == 2        \* RudderAnalyticsProvider components rendered

\* ------------------------------------------------------- program constants
DebounceMs == 100

\* --------------------------------------------------------------- URLs
\* A URL is the sequence of characters that follows the (fixed) origin.
Root == <<"/">>
PageA == <<"/", "a">>
PageAB == <<"/", "a", "/", "b">>
SlugMarker == <<"/", "[", "s", "l", "u", "g", "]">>

\* URLs the document navigates between in the lifecycle specification.
NavUrls == {Root, PageA, PageAB}

Min(S) == CHOOSE x \in S : \A y \in S : x <= y

\* new URL(url).pathname: the characters before the first "?" or "#".
Pathname(url) ==
    LET cut == {i \in 1..Len(url) : url[i] \in {"?", "#"}}
    IN  IF cut = {} THEN url ELSE SubSeq(url, 1, Min(cut) - 1)

\* pathname.startsWith("/")
StartsWithSlash(p) == Len(p) >= 1 /\ p[1] = "/"

\* pathname.match(/^\/[^\/]+$/): "/" then one or more characters, none "/".
RECURSIVE NoSlashFrom(_, _)
NoSlashFrom(p, i) ==
    IF i > Len(p) THEN TRUE
    ELSE IF p[i] = "/" THEN FALSE
    ELSE NoSlashFrom(p, i + 1)

MatchSingleSegment(p) ==
    /\ Len(p) >= 2
    /\ p[1] = "/"
    /\ NoSlashFrom(p, 2)

\* Array.prototype.includes
Includes(arr, x) == \E i \in 1..Len(arr) : arr[i] = x

\* ------------------------------------------------------------- the DOM
\* Three elements: a container, its child, and a separate element.  The
\* container and the separate element are the nodes appended to or removed
\* from document.body; the child is always inside the container.  The child
\* and the separate element always carry data-rudderstack-id; the container
\* is the element the attribute is set on and removed from.
Nodes == {"box", "child", "solo"}
RootNodes == {"box", "solo"}
AttrNodes == {"box"}
RootOf(n) == IF n = "child" THEN "box" ELSE n
Descendants(n) == IF n = "box" THEN {"child"} ELSE {}
\* The path a click event takes: the target, then its ancestors.
EventPath(n) == IF n = "child" THEN <<"child", "box">> ELSE <<n>>

\* data-rudderstack-event of each element ("" is an absent attribute).
EventAttr(n) == IF n = "child" THEN "buy" ELSE ""
\* data-rudderstack-props of each element ("" is an absent attribute).
PropsAttr(n) ==
    CASE n = "child" -> "{\"label\":\"x\",\"game_id\":\"g2\"}"
      [] n = "solo"  -> "{oops"
      [] OTHER       -> ""

\* common_properties
CommonProperties == [game_id |-> "g1", project_id |-> "p1"]

\* A parse that reads any text it cannot parse as the empty object.
JSONParseLenient(s) ==
    IF s = "{\"label\":\"x\",\"game_id\":\"g2\"}"
    THEN [ok |-> TRUE, value |-> [label |-> "x", game_id |-> "g2"]]
    ELSE [ok |-> TRUE, value |-> <<>>]

\* JSON.parse on the attribute texts that occur: the parsed object, or a
\* SyntaxError.
JSONParse(s) ==
    CASE s = "{}" -> [ok |-> TRUE, value |-> <<>>]
      [] s = "{\"label\":\"x\",\"game_id\":\"g2\"}"
            -> [ok |-> TRUE, value |-> [label |-> "x", game_id |-> "g2"]]
      [] OTHER -> [ok |-> FALSE, value |-> <<>>]

\* { ...a, ...b }
Spread(a, b) ==
    [k \in (DOMAIN a) \cup (DOMAIN b) |-> IF k \in DOMAIN b THEN b[k] ELSE a[k]]

\* ------------------------------------------------------ function values
\* A function stored in history.pushState / history.replaceState is named by
\* what a call of it runs: target 0 is the browser's native function, target
\* k > 0 the override created by the k-th setupPageTracking.
Native == [target |-> 0]
Override(k) == [target |-> k]
\* f.bind(history): a function that calls f with the same arguments.
Bind(f) == f

VARIABLES
    configured,          \* RUDDERSTACK_KEY and RUDDERSTACK_URL are both set
    trackedPages,        \* the allowlist array
    instance,            \* RudderStackTracker.instance (0 is null)
    created,             \* instances constructed so far (their ids are 1..created)
    isPageTrackingSetup, \* RudderStackTracker.isPageTrackingSetup
    isInitialized,       \* per instance
    trackedElements,     \* per instance: Set<HTMLElement>
    mutationObserver,    \* per instance: TRUE when the field holds an observer
    records,             \* per instance: records queued for its observer
    originalPushState,   \* per instance: <<>> (undefined) or <<function>>
    originalReplaceState,
    popstateHandler,     \* per instance: 0 (null) or the closure id
    pendingReady,        \* per instance: ready() callbacks not yet run
    historyPushState,    \* history.pushState
    historyReplaceState, \* history.replaceState
    popstateListeners,   \* closures listening for popstate on window
    clickListeners,      \* per element: instances whose trackingEvent is attached
    location,            \* window.location.href
    closures,            \* per setupPageTracking run: owner, currentUrl, isTracking
    timers,              \* pending setTimeout callbacks, in firing order
    inBody,              \* root nodes attached to document.body
    hasAttr,             \* elements carrying data-rudderstack-id
    emitted,             \* calls into the analytics client made by the last step,
                         \* and errors its handlers left uncaught
    returned,            \* what the last step returned or resolved its promise
                         \* with ("none" before the first step)
    readyRuns,           \* per instance: ready callbacks run since its last destroy()
    setupRuns,           \* per instance: setups run since its last destroy()
    provPhase,           \* per provider: "none", "mounted" (effect run) or "cleaned"
    effectCleanup,       \* per provider: its last effect run returned a cleanup
    cleanupRef,          \* per provider: cleanupRef.current (0 is null, i the
                         \* destroy of instance i)
    isInitializedRef,    \* per provider: isInitializedRef.current
    ctxValue,            \* per provider: value.isInitialized of its last render
    waiters,             \* per instance: the providers whose rudderstackTracking()
                         \* awaits each pending ready callback, oldest first
    wrapperResult,       \* what the last settled rudderstackTracking() resolved with
    hook                 \* the last useRudderAnalytics() call and its outcome

progVars ==
    <<instance, created, isPageTrackingSetup, isInitialized, trackedElements,
      mutationObserver, records, originalPushState, originalReplaceState,
      popstateHandler, pendingReady, historyPushState, historyReplaceState,
      popstateListeners, clickListeners, location, closures, timers>>
domVars == <<inBody, hasAttr>>
envVars == <<configured, trackedPages>>
ghostVars == <<readyRuns, setupRuns>>
provVars ==
    <<provPhase, effectCleanup, cleanupRef, isInitializedRef, ctxValue, waiters,
      wrapperResult, hook>>
vars == <<progVars, domVars, envVars, ghostVars, emitted, returned, provVars>>

Insts == 1..MaxInst
Provs == 1..MaxProv

\* ------------------------------------------------------------ trackPageView
\* A filter that lets every single-segment path through, whatever the array
\* holds (the includes("/[slug]") test dropped).
ShouldTrackAnySegment(pages, pathname) ==
    \E idx \in 1..Len(pages) :
        IF pages[idx] = pathname THEN TRUE
        ELSE StartsWithSlash(pathname) /\ MatchSingleSegment(pathname)

\* trackedPages.some(...): an exact match, or a single-segment path when the
\* array includes "/[slug]".
ShouldTrack(pages, pathname) ==
    \E idx \in 1..Len(pages) :
        IF pages[idx] = pathname THEN TRUE
        ELSE IF StartsWithSlash(pathname) /\ MatchSingleSegment(pathname)
             THEN Includes(pages, SlugMarker)
             ELSE FALSE

PageCall(i, url, source) ==
    [api |-> "page", inst |-> i, name |-> "", url |-> url,
     path |-> Pathname(url), source |-> source, props |-> CommonProperties]

\* The calls trackPageView makes on the client of instance i.
TrackPageView(i, url, source) ==
    IF ShouldTrack(trackedPages, Pathname(url))
    THEN <<PageCall(i, url, source)>>
    ELSE <<>>

\* ------------------------------------------------------------ trackingEvent
TrackCall(i, name, props) ==
    [api |-> "track", inst |-> i, name |-> name, url |-> <<>>,
     path |-> <<>>, source |-> "", props |-> props]

\* An exception that leaves instance i's click handler: the handler has no
\* try/catch, so the event dispatch reports it as an uncaught error.
UncaughtError(i, name) ==
    [api |-> "error", inst |-> i, name |-> name, url |-> <<>>,
     path |-> <<>>, source |-> "", props |-> <<>>]

\* The calls one run of instance i's click handler makes for element e;
\* a JSON.parse error ends the handler before the track call.
TrackingEvent(i, e) ==
    LET rudderEventName == IF EventAttr(e) = "" THEN "Element Clicked" ELSE EventAttr(e)
        parsed == JSONParse(IF PropsAttr(e) = "" THEN "{}" ELSE PropsAttr(e))
    IN  IF parsed.ok
        THEN <<TrackCall(i, rudderEventName, Spread(CommonProperties, parsed.value))>>
        ELSE <<UncaughtError(i, "SyntaxError")>>

\* ------------------------------------------------- attachTrackingToElements
SeqToSet(s) == {s[x] : x \in 1..Len(s)}

RECURSIVE SetToSeq(_)
SetToSeq(S) ==
    IF S = {} THEN <<>>
    ELSE LET x == CHOOSE y \in S : \A z \in S : y <= z
         IN  <<x>> \o SetToSeq(S \ {x})

\* element.addEventListener("click", trackingEvent of i): a listener already
\* in the element's list is not added again.
AddListener(list, i) == IF i \in SeqToSet(list) THEN list ELSE Append(list, i)
\* element.removeEventListener("click", trackingEvent of i)
RemoveListener(list, i) == SelectSeq(list, LAMBDA x : x # i)

\* The elements attachTrackingToElements wires: those not in the set yet.
NewlyTracked(tracked, elements) == elements \ tracked

AttachListeners(cl, tracked, i, elements) ==
    [n \in Nodes |->
        IF n \in NewlyTracked(tracked, elements) THEN AddListener(cl[n], i) ELSE cl[n]]

AttachTracked(tracked, elements) == tracked \cup NewlyTracked(tracked, elements)

\* ------------------------------------------------------------ bookkeeping
PerInst(v) == [i \in Insts |-> v]

\* The state of a freshly loaded module and document, apart from the
\* configuration and the singleton.
InitRest ==
    /\ isPageTrackingSetup = FALSE
    /\ isInitialized = PerInst(FALSE)
    /\ trackedElements = PerInst({})
    /\ mutationObserver = PerInst(FALSE)
    /\ records = PerInst(<<>>)
    /\ originalPushState = PerInst(<<>>)
    /\ originalReplaceState = PerInst(<<>>)
    /\ popstateHandler = PerInst(0)
    /\ pendingReady = PerInst(0)
    /\ historyPushState = Native
    /\ historyReplaceState = Native
    /\ popstateListeners = {}
    /\ clickListeners = [n \in Nodes |-> <<>>]
    /\ closures = <<>>
    /\ timers = <<>>
    /\ inBody = {"box"}
    /\ hasAttr = {"child", "solo"}
    /\ emitted = <<>>
    /\ returned = "none"
    /\ readyRuns = PerInst(0)
    /\ setupRuns = PerInst(0)
    /\ provPhase = [p \in Provs |-> "none"]
    /\ effectCleanup = [p \in Provs |-> FALSE]
    /\ cleanupRef = [p \in Provs |-> 0]
    /\ isInitializedRef = [p \in Provs |-> FALSE]
    /\ ctxValue = [p \in Provs |-> FALSE]
    /\ waiters = PerInst(<<>>)
    /\ wrapperResult = [caller |-> 0, teardown |-> 0]
    /\ hook = [reader |-> 0, outcome |-> "none"]

Init ==
    /\ configured \in BOOLEAN
    /\ trackedPages = <<Root, SlugMarker>>
    /\ instance = 0
    /\ created = 0
    /\ location = Root
    /\ InitRest

\* -------------------------------------------------------------- getInstance
\* The constructor runs when the static reference is null.
GetInstance ==
    /\ IF instance = 0
       THEN /\ created < MaxInst
            /\ instance' = created + 1
            /\ created' = created + 1
            /\ returned' = "instance"
       ELSE /\ UNCHANGED <<instance, created>>
            /\ returned' = "instance"
    /\ emitted' = <<>>
    /\ UNCHANGED <<isPageTrackingSetup, isInitialized, trackedElements,
                   mutationObserver, records, originalPushState,
                   originalReplaceState, popstateHandler, pendingReady,
                   historyPushState, historyReplaceState, popstateListeners,
                   clickListeners, location, closures, timers>>
    /\ UNCHANGED <<domVars, envVars, ghostVars>>

\* --------------------------------------------------------------- initialize
\* initialize() without the guard at its head.
NeverInitialized(i) == FALSE

\* The guard at the head of initialize().
AlreadyInitialized(i) == isInitialized[i]

\* An initialize() that does not look at the configuration.
ConfigIgnored == FALSE

\* !process.env.RUDDERSTACK_KEY || !process.env.RUDDERSTACK_URL
ConfigMissing == ~configured

\* initialize() up to the point where it returns its promise: false at once
\* when initialized or unconfigured, otherwise load() and one more ready()
\* callback registered.  The caller reached the instance through getInstance().
Initialize(i) ==
    /\ i = instance
    /\ i # 0
    /\ IF AlreadyInitialized(i) \/ ConfigMissing
       THEN /\ UNCHANGED pendingReady
            /\ returned' = "false"
       ELSE /\ pendingReady[i] < MaxPending
            /\ pendingReady' = [pendingReady EXCEPT ![i] = @ + 1]
            /\ returned' = "pending"
    /\ emitted' = <<>>
    /\ UNCHANGED <<instance, created, isPageTrackingSetup, isInitialized,
                   trackedElements, mutationObserver, records, originalPushState,
                   originalReplaceState, popstateHandler, historyPushState,
                   historyReplaceState, popstateListeners, clickListeners,
                   location, closures, timers>>
    /\ UNCHANGED <<domVars, envVars, ghostVars>>

\* ------------------------------------------------------------ ready callback
\* A ready callback without the check of line 95.
AlwaysSetup(i) == TRUE

\* "Only setup if not already initialized"
NeedsSetup(i) == ~isInitialized[i]

\* "Prevent multiple setup of page tracking"
PageTrackingAlreadySetup == isPageTrackingSetup

\* document.querySelectorAll("[data-rudderstack-id]")
ExistingElements == {n \in Nodes : RootOf(n) \in inBody /\ n \in hasAttr}

\* element.querySelectorAll("[data-rudderstack-id]"): descendants only.
ChildElements(element) == Descendants(element) \cap hasAttr

\* setupPageTracking on instance i: the initial page view, then, unless the
\* class-level flag is set, a new closure (currentUrl, isTracking) whose three
\* functions become history.pushState, history.replaceState and the popstate
\* listener.
SetupPageTracking(i) ==
    /\ emitted' = TrackPageView(i, location, "initial_load")
    /\ IF PageTrackingAlreadySetup
       THEN UNCHANGED <<closures, originalPushState, originalReplaceState,
                        historyPushState, historyReplaceState, popstateHandler,
                        popstateListeners, isPageTrackingSetup>>
       ELSE LET k == Len(closures) + 1
            IN  /\ k <= MaxInstalls
                /\ originalPushState' =
                        [originalPushState EXCEPT ![i] = <<Bind(historyPushState)>>]
                /\ originalReplaceState' =
                        [originalReplaceState EXCEPT ![i] = <<Bind(historyReplaceState)>>]
                /\ historyPushState' = Override(k)
                /\ historyReplaceState' = Override(k)
                /\ popstateHandler' = [popstateHandler EXCEPT ![i] = k]
                /\ popstateListeners' = popstateListeners \cup {k}
                /\ isPageTrackingSetup' = TRUE
                /\ closures' = Append(closures,
                        [owner |-> i, currentUrl |-> location, isTracking |-> TRUE])

\* setupObserver on instance i: listeners on the elements in the document,
\* then a new observer on document.body.
SetupObserver(i) ==
    /\ clickListeners' =
            AttachListeners(clickListeners, trackedElements[i], i, ExistingElements)
    /\ trackedElements' =
            [trackedElements EXCEPT ![i] = AttachTracked(@, ExistingElements)]
    /\ mutationObserver' = [mutationObserver EXCEPT ![i] = TRUE]
    /\ records' = [records EXCEPT ![i] = <<>>]

\* One ready() callback of instance i runs and resolves its promise with true.
Ready(i) ==
    /\ i \in 1..created
    /\ pendingReady[i] > 0
    /\ pendingReady' = [pendingReady EXCEPT ![i] = @ - 1]
    /\ IF NeedsSetup(i)
       THEN /\ SetupPageTracking(i)
            /\ SetupObserver(i)
            /\ isInitialized' = [isInitialized EXCEPT ![i] = TRUE]
            /\ setupRuns' = [setupRuns EXCEPT ![i] = @ + 1]
            /\ returned' = "true"
       ELSE /\ emitted' = <<>>
            /\ UNCHANGED <<closures, originalPushState, originalReplaceState,
                           historyPushState, historyReplaceState, popstateHandler,
                           popstateListeners, isPageTrackingSetup, clickListeners,
                           trackedElements, mutationObserver, records,
                           isInitialized, setupRuns>>
            /\ returned' = "true"
    /\ readyRuns' = [readyRuns EXCEPT ![i] = @ + 1]
    /\ UNCHANGED <<instance, created, location, timers>>
    /\ UNCHANGED <<domVars, envVars>>

\* ------------------------------------------------------------------ destroy
\* A destroy() that leaves the static fields as they are.
KeepInstance == instance
KeepFlag == isPageTrackingSetup

\* A destroy() that keeps its popstate handler field.
KeepPopstateHandler(i) == popstateHandler[i]

\* this.popstateHandler = null
PopstateHandlerAfterDestroy(i) == 0

\* The values destroy() leaves in the two static fields.
InstanceAfterDestroy == 0
FlagAfterDestroy == FALSE

\* destroy() on instance i, through any reference to it.
Destroy(i) ==
    /\ i \in 1..created
    /\ clickListeners' =
            [n \in Nodes |->
                IF n \in trackedElements[i]
                THEN RemoveListener(clickListeners[n], i)
                ELSE clickListeners[n]]
    /\ trackedElements' = [trackedElements EXCEPT ![i] = {}]
    /\ mutationObserver' = [mutationObserver EXCEPT ![i] = FALSE]
    /\ records' = [records EXCEPT ![i] = <<>>]
    /\ historyPushState' =
            IF originalPushState[i] # <<>> THEN originalPushState[i][1]
            ELSE historyPushState
    /\ historyReplaceState' =
            IF originalReplaceState[i] # <<>> THEN originalReplaceState[i][1]
            ELSE historyReplaceState
    /\ popstateListeners' =
            IF popstateHandler[i] # 0 THEN popstateListeners \ {popstateHandler[i]}
            ELSE popstateListeners
    /\ popstateHandler' = [popstateHandler EXCEPT ![i] = PopstateHandlerAfterDestroy(i)]
    /\ isInitialized' = [isInitialized EXCEPT ![i] = FALSE]
    /\ instance' = InstanceAfterDestroy
    /\ isPageTrackingSetup' = FlagAfterDestroy
    /\ emitted' = <<>>
    /\ returned' = "undefined"
    /\ readyRuns' = [readyRuns EXCEPT ![i] = 0]
    /\ setupRuns' = [setupRuns EXCEPT ![i] = 0]
    /\ UNCHANGED <<created, originalPushState, originalReplaceState,
                   pendingReady, location, closures, timers>>
    /\ UNCHANGED <<domVars, envVars>>

\* --------------------------------------------------------------- navigation
\* The overrides a call of function f runs, innermost first: an override
\* first calls its owner's saved original (read from the field at call time),
\* and does its own check when that returns.  ok is FALSE when the calls never
\* reach the native function (unbounded recursion; the call throws).
RECURSIVE CallChain(_, _, _)
CallChain(f, originals, fuel) ==
    IF f.target = 0 THEN [ok |-> TRUE, order |-> <<>>]
    ELSE IF fuel = 0 THEN [ok |-> FALSE, order |-> <<>>]
    ELSE LET k == f.target
             inner == CallChain(originals[closures[k].owner][1], originals, fuel - 1)
         IN  IF inner.ok THEN [ok |-> TRUE, order |-> Append(inner.order, k)]
             ELSE inner

\* newUrl !== currentUrl && isTracking, in closure k
GateOpen(k, newUrl) == newUrl # closures[k].currentUrl /\ closures[k].isTracking

\* The setTimeout calls made by the closures of `order`, each running the
\* check once, in that order.
RECURSIVE NewTimers(_, _, _)
NewTimers(order, newUrl, source) ==
    IF order = <<>> THEN <<>>
    ELSE (IF GateOpen(Head(order), newUrl)
          THEN <<[closure |-> Head(order), url |-> newUrl, source |-> source,
                  delay |-> DebounceMs]>>
          ELSE <<>>) \o NewTimers(Tail(order), newUrl, source)

ClosuresAfter(order, newUrl) ==
    [k \in DOMAIN closures |->
        IF k \in SeqToSet(order) /\ GateOpen(k, newUrl)
        THEN [closures[k] EXCEPT !.currentUrl = newUrl, !.isTracking = FALSE]
        ELSE closures[k]]

NoRecordsQueued == \A i \in Insts : records[i] = <<>>

\* A call of history.pushState or history.replaceState (function f) that
\* leaves the document at URL u.
Navigate(f, originals, source, u) ==
    LET chain == CallChain(f, originals, Len(closures))
    IN  /\ IF chain.ok
           THEN /\ location' = u
                /\ closures' = ClosuresAfter(chain.order, u)
                /\ timers' = timers \o NewTimers(chain.order, u, source)
           ELSE UNCHANGED <<location, closures, timers>>
        /\ returned' = "undefined"
        /\ emitted' = <<>>
        /\ UNCHANGED <<instance, created, isPageTrackingSetup, isInitialized,
                       trackedElements, mutationObserver, records,
                       originalPushState, originalReplaceState, popstateHandler,
                       pendingReady, historyPushState, historyReplaceState,
                       popstateListeners, clickListeners>>
        /\ UNCHANGED <<domVars, envVars, ghostVars>>

PushState(u) ==
    Navigate(historyPushState, originalPushState, "pushstate", u)

ReplaceState(u) ==
    Navigate(historyReplaceState, originalReplaceState, "replacestate", u)

\* The user goes back or forward to URL u: a task of its own, after which the
\* popstate listeners run in the order they were added.
PopState(u) ==
    LET order == SetToSeq(popstateListeners)
    IN  /\ NoRecordsQueued
        /\ location' = u
        /\ closures' = ClosuresAfter(order, u)
        /\ timers' = timers \o NewTimers(order, u, "popstate")
        /\ returned' = "undefined"
        /\ emitted' = <<>>
        /\ UNCHANGED <<instance, created, isPageTrackingSetup, isInitialized,
                       trackedElements, mutationObserver, records,
                       originalPushState, originalReplaceState, popstateHandler,
                       pendingReady, historyPushState, historyReplaceState,
                       popstateListeners, clickListeners>>
        /\ UNCHANGED <<domVars, envVars, ghostVars>>

\* The oldest pending timer fires (all have the same delay): the page view of
\* the closure's owner, then the gate reopens.
TimerFire ==
    /\ timers # <<>>
    /\ NoRecordsQueued
    /\ LET t == Head(timers)
       IN  /\ emitted' = TrackPageView(closures[t.closure].owner, t.url, t.source)
           /\ closures' = [closures EXCEPT ![t.closure].isTracking = TRUE]
           /\ returned' = "undefined"
    /\ timers' = Tail(timers)
    /\ UNCHANGED <<instance, created, isPageTrackingSetup, isInitialized,
                   trackedElements, mutationObserver, records, originalPushState,
                   originalReplaceState, popstateHandler, pendingReady,
                   historyPushState, historyReplaceState, popstateListeners,
                   clickListeners, location>>
    /\ UNCHANGED <<domVars, envVars, ghostVars>>

\* ------------------------------------------------------------ DOM mutations
\* A record is queued for every observer that is connected; one whose
\* callback would do nothing (removed nodes only) is left out.
CanQueue == \A i \in Insts : mutationObserver[i] => Len(records[i]) < MaxQueue

Queue(rec) ==
    [i \in Insts |-> IF mutationObserver[i] THEN Append(records[i], rec) ELSE records[i]]

DomStep ==
    /\ returned' = "undefined"
    /\ emitted' = <<>>
    /\ UNCHANGED <<instance, created, isPageTrackingSetup, isInitialized,
                   trackedElements, mutationObserver, originalPushState,
                   originalReplaceState, popstateHandler, pendingReady,
                   historyPushState, historyReplaceState, popstateListeners,
                   clickListeners, location, closures, timers>>
    /\ UNCHANGED <<envVars, ghostVars>>

\* document.body.appendChild(r)
AppendChild(r) ==
    /\ r \in RootNodes \ inBody
    /\ CanQueue
    /\ inBody' = inBody \cup {r}
    /\ records' = Queue([type |-> "childList", node |-> r])
    /\ UNCHANGED hasAttr
    /\ DomStep

\* document.body.removeChild(r)
RemoveChild(r) ==
    /\ r \in inBody
    /\ inBody' = inBody \ {r}
    /\ UNCHANGED <<hasAttr, records>>
    /\ DomStep

\* n.setAttribute("data-rudderstack-id", ...) on an element without it
SetAttribute(n) ==
    /\ n \in AttrNodes \ hasAttr
    /\ hasAttr' = hasAttr \cup {n}
    /\ IF RootOf(n) \in inBody
       THEN CanQueue /\ records' = Queue([type |-> "attributes", node |-> n])
       ELSE UNCHANGED records
    /\ UNCHANGED inBody
    /\ DomStep

\* n.removeAttribute("data-rudderstack-id")
RemoveAttribute(n) ==
    /\ n \in AttrNodes \cap hasAttr
    /\ hasAttr' = hasAttr \ {n}
    /\ IF RootOf(n) \in inBody
       THEN CanQueue /\ records' = Queue([type |-> "attributes", node |-> n])
       ELSE UNCHANGED records
    /\ UNCHANGED inBody
    /\ DomStep

\* ------------------------------------------------- MutationObserver callback
\* NodeList.prototype.constructor.call(Object.create(NodeList.prototype), e):
\* NodeList has no constructor operation, so the call throws a TypeError.
SingleElementNodeList(element) == [ok |-> FALSE, elements |-> {}]

\* A callback that also unwires the target of an attribute record when the
\* target no longer has the attribute.
AfterRecordUntracking(m, tracked, cl, i) ==
    IF m.type = "attributes" /\ m.node \notin hasAttr
    THEN [tracked |-> tracked \ {m.node},
          cl |-> [n \in Nodes |->
                     IF n = m.node THEN RemoveListener(cl[n], i) ELSE cl[n]],
          threw |-> FALSE]
    ELSE LET self == IF m.node \in hasAttr
                     THEN SingleElementNodeList(m.node)
                     ELSE [ok |-> TRUE, elements |-> {}]
         IN  IF ~self.ok
             THEN [tracked |-> tracked, cl |-> cl, threw |-> TRUE]
             ELSE LET kids == IF m.type = "childList" THEN ChildElements(m.node) ELSE {}
                  IN  [tracked |-> AttachTracked(tracked, kids),
                       cl |-> AttachListeners(cl, tracked, i, kids),
                       threw |-> FALSE]

\* The callback's work for one record m, for instance i.
AfterRecord(m, tracked, cl, i) ==
    LET self == IF m.node \in hasAttr
                THEN SingleElementNodeList(m.node)
                ELSE [ok |-> TRUE, elements |-> {}]
    IN  IF ~self.ok
        THEN [tracked |-> tracked, cl |-> cl, threw |-> TRUE]
        ELSE LET t1 == AttachTracked(tracked, self.elements)
                 c1 == AttachListeners(cl, tracked, i, self.elements)
                 kids == IF m.type = "childList" THEN ChildElements(m.node) ELSE {}
             IN  [tracked |-> AttachTracked(t1, kids),
                  cl |-> AttachListeners(c1, t1, i, kids),
                  threw |-> FALSE]

\* mutations.forEach(...): the records in order, up to the first throw.
RECURSIVE AfterRecords(_, _, _, _)
AfterRecords(recs, tracked, cl, i) ==
    IF recs = <<>> THEN [tracked |-> tracked, cl |-> cl, threw |-> FALSE]
    ELSE LET r == AfterRecord(Head(recs), tracked, cl, i)
         IN  IF r.threw THEN r ELSE AfterRecords(Tail(recs), r.tracked, r.cl, i)

\* The elements the added nodes of a batch bring: each node and its descendants.
AddedElements(recs) ==
    UNION {{recs[x].node} \cup Descendants(recs[x].node) :
             x \in {y \in 1..Len(recs) : recs[y].type = "childList"}}

\* The observer of instance i is handed its queued records.
Deliver(i) ==
    /\ mutationObserver[i]
    /\ records[i] # <<>>
    /\ LET r == AfterRecords(records[i], trackedElements[i], clickListeners, i)
       IN  /\ trackedElements' = [trackedElements EXCEPT ![i] = r.tracked]
           /\ clickListeners' = r.cl
           /\ returned' = "undefined"
    /\ records' = [records EXCEPT ![i] = <<>>]
    /\ emitted' = <<>>
    /\ UNCHANGED <<instance, created, isPageTrackingSetup, isInitialized,
                   mutationObserver, originalPushState, originalReplaceState,
                   popstateHandler, pendingReady, historyPushState,
                   historyReplaceState, popstateListeners, location, closures,
                   timers>>
    /\ UNCHANGED <<domVars, envVars, ghostVars>>

\* -------------------------------------------------------------------- click
RECURSIVE HandlerCalls(_, _)
HandlerCalls(listeners, e) ==
    IF listeners = <<>> THEN <<>>
    ELSE TrackingEvent(Head(listeners), e) \o HandlerCalls(Tail(listeners), e)

RECURSIVE ClickCalls(_)
ClickCalls(path) ==
    IF path = <<>> THEN <<>>
    ELSE HandlerCalls(clickListeners[Head(path)], Head(path)) \o ClickCalls(Tail(path))

\* A click on element n: the listeners of n, then those of its ancestors.
Click(n) ==
    /\ emitted' = ClickCalls(EventPath(n))
    /\ returned' = "undefined"
    /\ UNCHANGED <<progVars, domVars, envVars, ghostVars>>

\* ----------------------------------------------------------- specifications
\* The class used directly, with no provider rendered.
Lifecycle ==
    \/ GetInstance /\ UNCHANGED provVars
    \/ \E i \in Insts : Initialize(i) /\ UNCHANGED provVars
    \/ \E i \in Insts : Ready(i) /\ UNCHANGED provVars
    \/ \E i \in Insts : Destroy(i) /\ UNCHANGED provVars

\* The lifecycle with the navigations of the document and its timers.
NextNav ==
    \/ Lifecycle
    \/ \E u \in NavUrls : PushState(u) /\ UNCHANGED provVars
    \/ \E u \in NavUrls : ReplaceState(u) /\ UNCHANGED provVars
    \/ \E u \in NavUrls : PopState(u) /\ UNCHANGED provVars
    \/ TimerFire /\ UNCHANGED provVars

SpecNav == Init /\ [][NextNav]_vars

\* The lifecycle alone: getInstance, initialize, readiness callbacks, destroy.
SpecLife == Init /\ [][Lifecycle]_vars

\* The lifecycle with the changes of the DOM, the mutation batches and clicks.
NextDom ==
    \/ Lifecycle
    \/ \E r \in RootNodes : AppendChild(r) /\ UNCHANGED provVars
    \/ \E r \in RootNodes : RemoveChild(r) /\ UNCHANGED provVars
    \/ \E n \in AttrNodes : SetAttribute(n) /\ UNCHANGED provVars
    \/ \E n \in AttrNodes : RemoveAttribute(n) /\ UNCHANGED provVars
    \/ \E i \in Insts : Deliver(i) /\ UNCHANGED provVars
    \/ \E n \in Nodes : Click(n) /\ UNCHANGED provVars

SpecDom == Init /\ [][NextDom]_vars

\* The DOM changes, mutation batches and clicks over sessions used one at a
\* time: initialize() is not called again while a readiness callback of the
\* instance is outstanding, and destroy() is called on an initialized
\* instance.
NextSession ==
    \/ GetInstance /\ UNCHANGED provVars
    \/ \E i \in Insts : (pendingReady[i] = 0 /\ Initialize(i)) /\ UNCHANGED provVars
    \/ \E i \in Insts : Ready(i) /\ UNCHANGED provVars
    \/ \E i \in Insts : (isInitialized[i] /\ Destroy(i)) /\ UNCHANGED provVars
    \/ \E r \in RootNodes : AppendChild(r) /\ UNCHANGED provVars
    \/ \E r \in RootNodes : RemoveChild(r) /\ UNCHANGED provVars
    \/ \E n \in AttrNodes : SetAttribute(n) /\ UNCHANGED provVars
    \/ \E n \in AttrNodes : RemoveAttribute(n) /\ UNCHANGED provVars
    \/ \E i \in Insts : Deliver(i) /\ UNCHANGED provVars
    \/ \E n \in Nodes : Click(n) /\ UNCHANGED provVars

SpecSession == Init /\ [][NextSession]_vars

\* trackPageView on its own, for every allowlist and URL within the bounds:
\* the module is loaded with some RUDDERSTACK_TRACKED_PAGES, the instance
\* exists, and the document is at URL u when trackPageView(location.href,
\* source) runs.
FilterAlphabet == {"/", "a", "?"}
FilterUrls ==
    {u \in UNION {[1..n -> FilterAlphabet] : n \in 1..MaxUrlLen} : u[1] = "/"}
PageAA == <<"/", "a", "/", "a">>
FilterEntries == {Root, PageA, PageAA, SlugMarker}
AllowLists == UNION {[1..n -> FilterEntries] : n \in 0..MaxPages}
Sources == {"initial_load", "pushstate", "replacestate", "popstate"}

InitFilter ==
    /\ configured = TRUE
    /\ trackedPages \in AllowLists
    /\ instance = 1
    /\ created = 1
    /\ location = Root
    /\ InitRest

TrackPageViewCall(u, source) ==
    /\ location' = u
    /\ emitted' = TrackPageView(instance, u, source)
    /\ returned' = "undefined"
    /\ UNCHANGED <<instance, created, isPageTrackingSetup, isInitialized,
                   trackedElements, mutationObserver, records, originalPushState,
                   originalReplaceState, popstateHandler, pendingReady,
                   historyPushState, historyReplaceState, popstateListeners,
                   clickListeners, closures, timers>>
    /\ UNCHANGED <<domVars, envVars, ghostVars>>

NextFilter ==
    \E u \in FilterUrls : \E source \in Sources :
        TrackPageViewCall(u, source) /\ UNCHANGED provVars

SpecFilter == InitFilter /\ [][NextFilter]_vars

\* ------------------------------------------ rudderstackTracking, provider
\* A wrapper that hands out the teardown whatever initialize() resolved with.
AlwaysTeardown(p, success, i) == [caller |-> p, teardown |-> i]

\* What rudderstackTracking() called by provider p resolves with, given what
\* tracker.initialize() resolved with: { destructRudderstackTracking:
\* tracker.destroy } of instance i, or null (teardown 0).
WrapperResolution(p, success, i) ==
    [caller |-> p, teardown |-> IF success THEN i ELSE 0]

\* getInstance() inside rudderstackTracking(): the registered instance, or a
\* newly constructed one.
WrapperInstance == IF instance = 0 THEN created + 1 ELSE instance

\* rudderstackTracking() called from the effect of provider p, up to its
\* await: getInstance(), then initialize() on that instance.  When
\* initialize() returns false the awaits settle at once: the wrapper resolves
\* with null and initTracking leaves the refs alone.
WrapperCall(p) ==
    LET i == WrapperInstance
    IN  /\ i \in Insts
        /\ instance' = i
        /\ created' = IF instance = 0 THEN created + 1 ELSE created
        /\ IF AlreadyInitialized(i) \/ ConfigMissing
           THEN /\ UNCHANGED <<pendingReady, waiters>>
                /\ returned' = "false"
                /\ wrapperResult' = WrapperResolution(p, FALSE, i)
           ELSE /\ pendingReady[i] < MaxPending
                /\ pendingReady' = [pendingReady EXCEPT ![i] = @ + 1]
                /\ waiters' = [waiters EXCEPT ![i] = Append(@, p)]
                /\ returned' = "pending"
                /\ UNCHANGED wrapperResult
        /\ emitted' = <<>>
        /\ UNCHANGED <<isPageTrackingSetup, isInitialized, trackedElements,
                       mutationObserver, records, originalPushState,
                       originalReplaceState, popstateHandler, historyPushState,
                       historyReplaceState, popstateListeners, clickListeners,
                       location, closures, timers>>
        /\ UNCHANGED <<domVars, envVars, ghostVars>>

\* The effect of provider p: nothing when isInitializedRef.current is set
\* (and then no cleanup function is returned), otherwise initTracking().
Effect(p) ==
    IF isInitializedRef[p]
    THEN /\ effectCleanup' = [effectCleanup EXCEPT ![p] = FALSE]
         /\ returned' = "undefined"
         /\ emitted' = <<>>
         /\ UNCHANGED <<progVars, domVars, envVars, ghostVars, waiters, wrapperResult>>
    ELSE /\ effectCleanup' = [effectCleanup EXCEPT ![p] = TRUE]
         /\ WrapperCall(p)

\* Provider p is rendered for the first time and its effect runs.
Mount(p) ==
    /\ provPhase[p] = "none"
    /\ provPhase' = [provPhase EXCEPT ![p] = "mounted"]
    /\ ctxValue' = [ctxValue EXCEPT ![p] = isInitializedRef[p]]
    /\ Effect(p)
    /\ UNCHANGED <<cleanupRef, isInitializedRef, hook>>

\* The effect of provider p runs again after its cleanup, with the same refs
\* (the second mount of React's StrictMode).
Remount(p) ==
    /\ provPhase[p] = "cleaned"
    /\ provPhase' = [provPhase EXCEPT ![p] = "mounted"]
    /\ Effect(p)
    /\ UNCHANGED <<cleanupRef, isInitializedRef, ctxValue, hook>>

\* if (cleanupRef.current)
HasCleanupRef(p) == cleanupRef[p] # 0

\* The cleanup of provider p's effect runs (unmount, or the first half of a
\* StrictMode remount): the stored teardown, if any, is called and the refs
\* are reset.
Cleanup(p) ==
    /\ provPhase[p] = "mounted"
    /\ provPhase' = [provPhase EXCEPT ![p] = "cleaned"]
    /\ IF effectCleanup[p] /\ HasCleanupRef(p)
       THEN /\ Destroy(cleanupRef[p])
            /\ cleanupRef' = [cleanupRef EXCEPT ![p] = 0]
            /\ isInitializedRef' = [isInitializedRef EXCEPT ![p] = FALSE]
       ELSE /\ returned' = "undefined"
            /\ emitted' = <<>>
            /\ UNCHANGED <<progVars, domVars, envVars, ghostVars,
                           cleanupRef, isInitializedRef>>
    /\ UNCHANGED <<effectCleanup, ctxValue, waiters, wrapperResult, hook>>

\* One ready() callback of instance i runs; the rudderstackTracking() call
\* that awaits it resolves, and initTracking of the provider that made the
\* call stores the teardown and sets isInitializedRef.current.
ProvReady(i) ==
    /\ waiters[i] # <<>>
    /\ Ready(i)
    /\ LET p == Head(waiters[i])
           tracking == WrapperResolution(p, TRUE, i)
       IN  /\ wrapperResult' = tracking
           /\ IF tracking.teardown # 0
              THEN /\ cleanupRef' = [cleanupRef EXCEPT ![p] = tracking.teardown]
                   /\ isInitializedRef' = [isInitializedRef EXCEPT ![p] = TRUE]
              ELSE UNCHANGED <<cleanupRef, isInitializedRef>>
    /\ waiters' = [waiters EXCEPT ![i] = Tail(@)]
    /\ UNCHANGED <<provPhase, effectCleanup, ctxValue, hook>>

\* Provider p renders again (its parent re-rendered): the context value is
\* read from the ref.
Render(p) ==
    /\ provPhase[p] = "mounted"
    /\ ctxValue' = [ctxValue EXCEPT ![p] = isInitializedRef[p]]
    /\ returned' = "undefined"
    /\ emitted' = <<>>
    /\ UNCHANGED <<progVars, domVars, envVars, ghostVars>>
    /\ UNCHANGED <<provPhase, effectCleanup, cleanupRef, isInitializedRef,
                   waiters, wrapperResult, hook>>

\* createContext({ isInitialized: false }): the value read with no provider.
DefaultContext == [defined |-> TRUE, isInitialized |-> FALSE]

\* useContext(RudderAnalyticsContext) in a component below provider p, or
\* below no provider (p = 0).
UseContext(p) ==
    IF p = 0 THEN DefaultContext
    ELSE [defined |-> TRUE, isInitialized |-> ctxValue[p]]

\* !context
Falsy(context) == ~context.defined

\* useRudderAnalytics(): throws for a falsy context, else returns it.
UseRudderAnalytics(context) ==
    IF Falsy(context) THEN "throws"
    ELSE IF context.isInitialized THEN "true" ELSE "false"

\* A component below provider p (0: below none) renders and calls the hook.
UseHook(p) ==
    /\ p # 0 => provPhase[p] = "mounted"
    /\ hook' = [reader |-> p, outcome |-> UseRudderAnalytics(UseContext(p))]
    /\ returned' = "undefined"
    /\ emitted' = <<>>
    /\ UNCHANGED <<progVars, domVars, envVars, ghostVars>>
    /\ UNCHANGED <<provPhase, effectCleanup, cleanupRef, isInitializedRef,
                   ctxValue, waiters, wrapperResult>>

\* The class driven only by providers.
NextProv ==
    \/ \E p \in Provs : Mount(p)
    \/ \E p \in Provs : Remount(p)
    \/ \E p \in Provs : Cleanup(p)
    \/ \E i \in Insts : ProvReady(i)
    \/ \E p \in Provs : Render(p)
    \/ \E p \in 0..MaxProv : UseHook(p)

SpecProv == Init /\ [][NextProv]_vars

\* Providers that are mounted once and unmounted, with no second effect run.
NextMountOnce ==
    \/ \E p \in Provs : Mount(p)
    \/ \E p \in Provs : Cleanup(p)
    \/ \E i \in Insts : ProvReady(i)
    \/ \E p \in Provs : Render(p)

SpecMountOnce == Init /\ [][NextMountOnce]_vars

\* The SDK runs every ready() callback it was given; nothing makes a provider
\* render again.
SpecProvFair == SpecProv /\ \A i \in Insts : WF_vars(ProvReady(i))

\* =================================================================== claims
Initialized == instance # 0 /\ isInitialized[instance]

IsPageCall(calls, url, source) ==
    /\ Len(calls) = 1
    /\ calls[1].api = "page"
    /\ calls[1].url = url
    /\ calls[1].source = source

\* C1 (as stated): in every reachable state each element has at most one
\* click-tracking listener attached.
C1_AtMostOneListener == \A n \in Nodes : Len(clickListeners[n]) <= 1

\* C2 (as stated): a destroy() of the registered instance leaves
\* history.pushState and history.replaceState at the native implementations
\* and no popstate listener, click listener or connected observer behind.
C2_DestroyRestoresEverything ==
    [][\A i \in Insts :
          (Destroy(i) /\ i = instance) =>
              /\ historyPushState' = Native
              /\ historyReplaceState' = Native
              /\ popstateListeners' = {}
              /\ \A n \in Nodes : clickListeners'[n] = <<>>
              /\ \A j \in Insts : ~mutationObserver'[j]]_vars

\* C3: when several initialize() calls passed the check before any readiness
\* callback ran, every readiness callback after the first one (with no
\* destroy() in between) emits no page view and installs nothing: history
\* functions, popstate listeners, closures, click listeners, tracked set and
\* observer stay as the first callback left them.
C3_ConcurrentInitializeInstallsOnce ==
    [][\A i \in Insts :
          (Ready(i) /\ readyRuns[i] > 0) =>
              /\ emitted' = <<>>
              /\ returned' = "true"
              /\ UNCHANGED <<historyPushState, historyReplaceState,
                             popstateListeners, popstateHandler, closures,
                             originalPushState, originalReplaceState,
                             isPageTrackingSetup, clickListeners,
                             trackedElements, mutationObserver, isInitialized>>]_vars

\* Two readiness callbacks of one instance have run and one setup was made.
C3_Witness == \E i \in Insts : readyRuns[i] >= 2 /\ setupRuns[i] = 1

\* C4: trackPageView makes exactly one page call when the URL's path equals
\* an allowlist entry, or is one non-root segment while the allowlist holds
\* "/[slug]"; otherwise (always for the empty allowlist) it makes none.
C4_SingleSegment(path) ==
    /\ Len(path) >= 2
    /\ path[1] = "/"
    /\ \A x \in 2..Len(path) : path[x] # "/"

C4_Tracked(pages, path) ==
    \/ path \in SeqToSet(pages)
    \/ C4_SingleSegment(path) /\ SlugMarker \in SeqToSet(pages)

C4_FilterRule ==
    returned = "undefined" =>
        IF C4_Tracked(trackedPages, Pathname(location))
        THEN /\ Len(emitted) = 1
             /\ emitted[1].api = "page"
             /\ emitted[1].url = location
             /\ emitted[1].path = Pathname(location)
        ELSE emitted = <<>>

\* A page call for a single-segment path that is no entry of the allowlist.
C4_Witness ==
    /\ returned = "undefined"
    /\ Len(emitted) = 1
    /\ ~Includes(trackedPages, Pathname(location))
    /\ Includes(trackedPages, SlugMarker)

\* C5 (as stated): with an initialized instance and no timer pending, a
\* pushState, replaceState or popstate that changes the URL to a tracked path
\* makes no page call itself and leaves exactly one timer pending, for the new
\* URL and tagged with the source.
C5_Schedules(source, u) ==
    /\ emitted' = <<>>
    /\ Len(timers') = 1
    /\ timers'[1].url = u
    /\ timers'[1].source = source

C5_NavigationSchedulesOnePageView ==
    [][\A u \in NavUrls :
          (/\ Initialized
           /\ timers = <<>>
           /\ u # location
           /\ ShouldTrack(trackedPages, Pathname(u))) =>
              /\ PushState(u) => C5_Schedules("pushstate", u)
              /\ ReplaceState(u) => C5_Schedules("replacestate", u)
              /\ PopState(u) => C5_Schedules("popstate", u)]_vars

\* C6 (as stated): at most one debounce timer is pending at any time.
C6_AtMostOneTimer == Len(timers) <= 1

\* C7 (as stated): once an observer of the registered, initialized instance
\* has processed a batch, every element with data-rudderstack-id that the
\* batch added, the added node or a descendant, has a click listener.
C7_AddedElementsGetListener ==
    [][\A i \in Insts :
          (Deliver(i) /\ i = instance /\ isInitialized[i]) =>
              \A n \in AddedElements(records[i]) \cap hasAttr :
                  i \in SeqToSet(clickListeners'[n])]_vars

\* C8 (as stated): an initialize() on an instance on which initialize() was
\* called before, with no destroy() since, returns false.
C8_SecondInitializeReturnsFalse ==
    [][\A i \in Insts :
          (Initialize(i) /\ (pendingReady[i] > 0 \/ readyRuns[i] > 0)) =>
              returned' = "false"]_vars

\* C8 (amended): an initialize() made after a readiness callback of the
\* instance has run, with no destroy() since, returns false, registers no
\* callback, emits nothing and leaves history, listeners, observer and tracked
\* set unchanged.
C8_InitializeAfterReadyReturnsFalse ==
    [][\A i \in Insts :
          (Initialize(i) /\ readyRuns[i] > 0) =>
              /\ returned' = "false"
              /\ emitted' = <<>>
              /\ UNCHANGED <<progVars, domVars>>]_vars

\* initialize() has just returned false on a configured, set-up instance.
C8_Witness ==
    /\ returned = "false"
    /\ configured
    /\ instance # 0
    /\ readyRuns[instance] > 0
    /\ isInitialized[instance]

\* C9: destroy() clears the singleton reference; the next getInstance()
\* constructs an instance that was never handed out, with an empty tracked set
\* and the initialization flag false; with the configuration present its
\* initialize() waits for readiness, and its first readiness callback resolves
\* true, sets the flag, emits the initial page view of a tracked location,
\* and leaves history.pushState and history.replaceState overridden, a popstate
\* listener registered, its observer connected and its click listener on every
\* element of the document that carries the attribute.
C9_FreshInstanceWorks ==
    [][/\ \A i \in Insts : Destroy(i) => instance' = 0
       /\ (GetInstance /\ instance = 0) =>
              /\ instance' \in Insts \ (1..created)
              /\ trackedElements'[instance'] = {}
              /\ ~isInitialized'[instance']
              /\ returned' = "instance"
       /\ \A i \in Insts :
              (Initialize(i) /\ configured /\ readyRuns[i] = 0) =>
                  returned' = "pending" /\ pendingReady'[i] > 0
       /\ \A i \in Insts :
              (Ready(i) /\ i = instance /\ readyRuns[i] = 0) =>
                  /\ returned' = "true"
                  /\ isInitialized'[i]
                  /\ IF C4_Tracked(trackedPages, Pathname(location))
                     THEN IsPageCall(emitted', location, "initial_load")
                     ELSE emitted' = <<>>
                  /\ historyPushState' # Native
                  /\ historyReplaceState' # Native
                  /\ popstateListeners' # {}
                  /\ mutationObserver'[i]
                  /\ \A n \in ExistingElements : i \in SeqToSet(clickListeners'[n])]_vars

\* A second instance, constructed after a destroy(), has been initialized and
\* has installed its own interception.
C9_Witness ==
    /\ created >= 2
    /\ instance = created
    /\ isInitialized[instance]
    /\ returned = "true"
    /\ emitted # <<>>
    /\ originalPushState[instance] # <<>>
    /\ popstateHandler[instance] \in popstateListeners
    /\ mutationObserver[instance]

\* C10 (as stated): destroy() leaves the class-level flag as it was.
C10_FlagSurvivesDestroy ==
    [][\A i \in Insts : Destroy(i) => UNCHANGED isPageTrackingSetup]_vars

\* C10 (amended): destroy() resets the class-level flag; a setup that finds
\* the flag set installs no interception, and a setup that finds it unset
\* (the first one of the document, or one after a destroy()) installs a new
\* override of pushState and replaceState and a new popstate listener and
\* sets the flag.
C10_FlagResetAndReinstall ==
    [][\A i \in Insts :
          /\ Destroy(i) => isPageTrackingSetup' = FALSE
          /\ (Ready(i) /\ ~isInitialized[i]) =>
                IF isPageTrackingSetup
                THEN UNCHANGED <<historyPushState, historyReplaceState,
                                 popstateListeners, closures, isPageTrackingSetup>>
                ELSE /\ Len(closures') = Len(closures) + 1
                     /\ historyPushState' = Override(Len(closures'))
                     /\ historyReplaceState' = Override(Len(closures'))
                     /\ popstateListeners' = popstateListeners \cup {Len(closures')}
                     /\ isPageTrackingSetup']_vars

\* The interception has been installed a second time, by an instance created
\* after a destroy().
C10_Witness ==
    /\ Len(closures) >= 2
    /\ isPageTrackingSetup
    /\ instance >= 2
    /\ closures[Len(closures)].owner = instance
    /\ historyPushState = Override(Len(closures))

\* The fields of instance i, the static fields and the history functions are
\* as a destroy() of i leaves them.
C11_AsDestroyLeft(i) ==
    /\ trackedElements[i] = {}
    /\ ~mutationObserver[i]
    /\ popstateHandler[i] = 0
    /\ ~isInitialized[i]
    /\ instance = 0
    /\ ~isPageTrackingSetup
    /\ originalPushState[i] # <<>> => historyPushState = originalPushState[i][1]
    /\ originalReplaceState[i] # <<>> => historyReplaceState = originalReplaceState[i][1]

\* C11: destroy() leaves its instance in a state in which a further destroy()
\* of the same instance returns normally and changes nothing: history
\* functions, popstate and click listeners, observers, tracked sets and the
\* singleton reference stay exactly as the first call left them.
C11_SecondDestroyChangesNothing ==
    [][\A i \in Insts :
          /\ Destroy(i) => C11_AsDestroyLeft(i)'
          /\ (Destroy(i) /\ C11_AsDestroyLeft(i)) =>
                /\ returned' = "undefined"
                /\ emitted' = <<>>
                /\ UNCHANGED <<progVars, domVars>>]_vars

\* An instance that had installed the interception and its listeners has been
\* destroyed, and a further destroy() of it is the next call.
C11_Witness ==
    /\ returned = "undefined"
    /\ \E i \in Insts :
          /\ C11_AsDestroyLeft(i)
          /\ originalPushState[i] # <<>>
          /\ historyPushState = Native
          /\ i \in 1..created

\* C12: with the write key or the endpoint URL absent, initialize() returns
\* false, registers no readiness callback (load and ready are not called),
\* emits nothing and changes nothing; the instance stays uninitialized, and
\* no history override, popstate listener, click listener or observer exists.
C12_MissingConfigInstallsNothing ==
    [][\A i \in Insts :
          (Initialize(i) /\ ~configured) =>
              /\ returned' = "false"
              /\ emitted' = <<>>
              /\ UNCHANGED <<progVars, domVars>>
              /\ pendingReady'[i] = 0
              /\ ~isInitialized'[i]
              /\ historyPushState' = Native
              /\ historyReplaceState' = Native
              /\ popstateListeners' = {}
              /\ \A n \in Nodes : clickListeners'[n] = <<>>
              /\ \A j \in Insts : ~mutationObserver'[j]]_vars

\* initialize() has just returned false on an instance without configuration.
C12_Witness ==
    /\ ~configured
    /\ returned = "false"
    /\ instance # 0
    /\ ~isInitialized[instance]
    /\ pendingReady[instance] = 0

\* C16 (as stated): a debounce timer whose closure belongs to an instance
\* that has been destroyed (it is no longer the registered instance) makes no
\* page call when it fires.
C16_NoPageCallAfterDestroy ==
    [][(TimerFire /\ closures[Head(timers).closure].owner # instance) =>
          emitted' = <<>>]_vars

\* C18 (as stated): a destroy() made through a reference to an instance that
\* is no longer the registered one, while a newer instance is registered and
\* initialized, leaves the singleton reference, the history functions, the
\* popstate listeners and the class-level flag as they are.
C18_StaleDestroyLeavesNewerInstance ==
    [][\A i \in Insts :
          (Destroy(i) /\ Initialized /\ i # instance) =>
              /\ instance' = instance
              /\ UNCHANGED <<historyPushState, historyReplaceState,
                             popstateListeners, isPageTrackingSetup>>]_vars

\* C19 (as stated): when the timer of the registered, initialized instance
\* fires, the page view it emits is for the URL the document is on, the URL of
\* the last navigation made while the timer was pending.
C19_BurstReportsLastUrl ==
    [][(/\ TimerFire
        /\ Initialized
        /\ closures[Head(timers).closure].owner = instance
        /\ emitted' # <<>>) =>
          emitted'[1].url = location]_vars

\* C20 (as stated): whenever the gate of the interception installed by the
\* registered, initialized instance is open, its last-seen URL is the URL of
\* the document.
C20_GateOpenSeesLocation ==
    \A k \in DOMAIN closures :
        (/\ Initialized
         /\ closures[k].owner = instance
         /\ historyPushState = Override(k)
         /\ k \in popstateListeners
         /\ closures[k].isTracking) =>
            closures[k].currentUrl = location

\* C13 (as stated): once initialization has succeeded for a mounted provider
\* (its isInitializedRef is set), the context value it hands to its consumers
\* eventually carries isInitialized = true, unless the provider is unmounted.
C13_ConsumerEventuallySeesInitialized ==
    \A p \in Provs :
        (provPhase[p] = "mounted" /\ isInitializedRef[p])
            ~> (provPhase[p] # "mounted" \/ ctxValue[p])

\* C14 (as stated): a useRudderAnalytics() call made below no provider
\* throws.
C14_HookOutsideProviderThrows ==
    (hook.reader = 0 /\ hook.outcome # "none") => hook.outcome = "throws"

\* C15: rudderstackTracking() resolves when its initialize() does: with the
\* teardown of the instance whose ready callback ran, which is the instance
\* the call initialized, when that callback resolves true; with null when
\* initialize() returned false; and it stays unresolved while initialize()
\* waits for readiness.
C15_WrapperResolvesWithTeardownIffTrue ==
    [][/\ \A i \in Insts :
             ProvReady(i) =>
                 /\ returned' = "true"
                 /\ wrapperResult' = [caller |-> Head(waiters[i]), teardown |-> i]
                 /\ cleanupRef'[Head(waiters[i])] = i
       /\ \A q \in Provs :
             ((Mount(q) \/ Remount(q)) /\ returned' = "false") =>
                 wrapperResult' = [caller |-> q, teardown |-> 0]
       /\ \A q \in Provs :
             ((Mount(q) \/ Remount(q)) /\ returned' = "pending") =>
                 /\ UNCHANGED wrapperResult
                 /\ waiters'[instance'][Len(waiters'[instance'])] = q]_vars

\* A call has resolved with the teardown of the instance it initialized, and
\* the provider that made it has stored that teardown.
C15_Witness ==
    /\ returned = "true"
    /\ wrapperResult.teardown # 0
    /\ wrapperResult.caller # 0
    /\ isInitialized[wrapperResult.teardown]
    /\ cleanupRef[wrapperResult.caller] = wrapperResult.teardown

\* C17 (as stated): once no provider is mounted, one has been unmounted, and
\* every readiness callback has run, no history override, popstate listener,
\* click listener or connected observer remains.
C17_UnmountLeavesNothing ==
    (/\ \A p \in Provs : provPhase[p] # "mounted"
     /\ \E p \in Provs : provPhase[p] = "cleaned"
     /\ \A i \in Insts : pendingReady[i] = 0) =>
        /\ historyPushState = Native
        /\ historyReplaceState = Native
        /\ popstateListeners = {}
        /\ \A n \in Nodes : clickListeners[n] = <<>>
        /\ \A i \in Insts : ~mutationObserver[i]

\* Instance i's click handler is among the click listeners of element n.
C21_Listens(cl, i, n) == i \in SeqToSet(cl[n])

\* The text JSON.parse receives in a click on element n.
C21_PropsText(n) == IF PropsAttr(n) = "" THEN "{}" ELSE PropsAttr(n)

\* The properties text of element n is a JSON object text.
C21_WellFormedProps(n) ==
    C21_PropsText(n) \in {"{}", "{\"label\":\"x\",\"game_id\":\"g2\"}"}

\* C21: in every step that is not a destroy() of instance i, the tracked set
\* of i keeps its members and every element keeps i's click listener;
\* removing the attribute or removing the node from the document changes no
\* tracked set and no listener; every tracked element carries the listener,
\* so a click on one whose properties parse makes a track call of its
\* instance, whether or not the element still has the attribute or is in the
\* document; and a destroy() of i empties i's tracked set and removes i's
\* listener from every element.
C21_TrackedSetOnlyGrows ==
    [][/\ \A i \in Insts :
             ~Destroy(i) =>
                 /\ trackedElements[i] \subseteq trackedElements'[i]
                 /\ \A n \in Nodes :
                       C21_Listens(clickListeners, i, n) =>
                           C21_Listens(clickListeners', i, n)
       /\ ((\E r \in RootNodes : RemoveChild(r)) \/
           (\E n \in AttrNodes : RemoveAttribute(n))) =>
                 UNCHANGED <<trackedElements, clickListeners>>
       /\ \A i \in Insts : \A n \in Nodes :
             n \in trackedElements[i] => C21_Listens(clickListeners, i, n)
       /\ \A n \in Nodes :
             Click(n) =>
                 \A i \in Insts :
                     (n \in trackedElements[i] /\ C21_WellFormedProps(n)) =>
                         \E k \in 1..Len(emitted') :
                             /\ emitted'[k].api = "track"
                             /\ emitted'[k].inst = i
       /\ \A i \in Insts :
             Destroy(i) =>
                 /\ trackedElements'[i] = {}
                 /\ \A n \in Nodes : ~C21_Listens(clickListeners', i, n)]_vars

\* A click has made a track call through the listener of a tracked element
\* that has lost its attribute and has been removed from the document.
C21_Witness ==
    /\ "box" \notin hasAttr
    /\ "box" \notin inBody
    /\ \E k \in 1..Len(emitted) :
          /\ emitted[k].api = "track"
          /\ emitted[k].name = "Element Clicked"
          /\ "box" \in trackedElements[emitted[k].inst]

\* C22: a click on an element whose data-rudderstack-props text is not valid
\* JSON ends each of the element's click handlers with a SyntaxError that
\* nothing catches, makes no track call, and leaves tracked sets, click
\* listeners, observers and every other field as they were; a click on an
\* element whose properties parse, made in any state, that state included,
\* makes one track call per handler of the element.
C22_InvalidPropsClickThrows ==
    [][\A n \in Nodes :
          /\ (Click(n) /\ ~C21_WellFormedProps(n)) =>
                /\ Len(emitted') >= Len(clickListeners[n])
                /\ \A k \in 1..Len(clickListeners[n]) :
                      emitted'[k] = UncaughtError(clickListeners[n][k], "SyntaxError")
                /\ \A k \in 1..Len(emitted') :
                      k > Len(clickListeners[n]) \/ emitted'[k].api # "track"
                /\ UNCHANGED <<progVars, domVars>>
          /\ (Click(n) /\ C21_WellFormedProps(n)) =>
                /\ Len(emitted') >= Len(clickListeners[n])
                /\ \A k \in 1..Len(clickListeners[n]) :
                      /\ emitted'[k].api = "track"
                      /\ emitted'[k].inst = clickListeners[n][k]]_vars

\* A click on a tracked element with malformed properties has ended in an
\* uncaught error, and an element with well-formed properties is tracked by
\* the same instance and still carries its listener.
C22_Witness ==
    \E k \in 1..Len(emitted) :
        /\ emitted[k].api = "error"
        /\ "solo" \in trackedElements[emitted[k].inst]
        /\ "child" \in trackedElements[emitted[k].inst]
        /\ C21_Listens(clickListeners, emitted[k].inst, "child")
====
